---- MODULE Spec2Model ----
(***************************************************************************)
(* Model of echozap's ZapLoggerWithConfig (logger.go): a chain of one or   *)
(* more ZapLogger middleware layers wrapped around a terminal handler,     *)
(* serving one request.  Layer 1 is the outermost layer; the "next" of     *)
(* layer L is layer L+1, and the "next" of the innermost layer is the      *)
(* terminal handler (position NumLayers + 1 of the chain).                 *)
(***************************************************************************)
EXTENDS Integers, Sequences, FiniteSets, TLC

VARIABLES
    config,     \* config[L]: the ZapLoggerConfig captured by layer L
    req,        \* the inbound request seen through echo.Context
    res,        \* the echo.Response: Status, Size and the X-Request-Id header
    pc,         \* pc[p]: position of chain member p (layers, then the handler)
    start,      \* start[L]: the local `start` of layer L (NoTime when never set)
    err,        \* err[L]: the local `err` of layer L, the value next(c) gave it
    ret,        \* ret[p]: the value chain member p returned to its caller
    calls,      \* calls[L]: how many times layer L has invoked next
    now,        \* the wall clock, in nanoseconds
    log,        \* the entries written to the zap logger, in order
    sink,       \* the errors handed to c.Error, in order
    trace       \* trace[L]: the steps layer L has executed, in program order

vars == <<config, req, res, pc, start, err, ret, calls, now, log, sink, trace>>

----------------------------------------------------------------------------
(* Bounds of the model *)

MaxLayers == 2        \* how many times the middleware is applied
MaxHandlerDur == 1    \* the longest the terminal handler runs (>= 1 ns)
MaxErrorDur == 1      \* the longest c.Error's HTTP error handler runs

----------------------------------------------------------------------------
(* Values *)

Nil == "<nil>"                      \* the nil error
Errors == {"boom"}                  \* non-nil error values
NotReturned == "<running>"          \* ret[p] before p has returned
NoTime == -1                        \* start[L] before time.Now() is taken

NilSkipper == "nil"                 \* config.Skipper left unset
SkipThis == "SkipThis"              \* a Skipper that answers true on this request
Skippers == {NilSkipper, "DefaultSkipper", SkipThis}

Methods == {"GET", "POST"}
URIs == {"/foo"}
RequestIds == {"", "abc"}           \* inbound X-Request-Id header ("" = absent)
ResponseIds == {"", "xyz"}          \* outbound X-Request-Id header
StatusSet == {-1, 200, 299, 300, 399, 400, 499, 500}
SizeSet == {42}
ErrorHandlerStatus == {500}         \* statuses the HTTP error handler writes

----------------------------------------------------------------------------
(* Pure parts of the decorator *)

\* DefaultZapLoggerConfig (logger.go:27-30), the config ZapLogger passes.
DefaultZapLoggerConfig ==
    [Skipper |-> "DefaultSkipper", IncludeRequestLogMessage |-> FALSE]

\* DefaultSkipper (logger.go:34-36) returns false; SkipThis returns true.
CallSkipper(sk) == IF sk = "DefaultSkipper" THEN FALSE ELSE TRUE

\* config.Skipper(c) (logger.go:52) after the nil default of logger.go:47-49.
SkipperSays(cfg) ==
    IF cfg.Skipper = NilSkipper
    THEN CallSkipper(DefaultZapLoggerConfig.Skipper)
    ELSE CallSkipper(cfg.Skipper)

\* fmt.Sprintf("%s %s", req.Method, req.RequestURI) (logger.go:66).
RequestLogField(r) == r.Method \o " " \o r.RequestURI

\* time.Duration.String() for durations below one microsecond.
DurationString(d) == IF d = 0 THEN "0s" ELSE ToString(d) \o "ns"

Since_Reversed(s, t) == s - t

\* time.Since(start) (logger.go:70), read when the clock shows t.
Since(s, t) == t - s

\* zap.String("latency", time.Since(start).String()) (logger.go:70).
LatencyField(s, t) == DurationString(Since(s, t))

ResolveId_ResponseFirst(reqId, resId) == IF resId = "" THEN reqId ELSE resId

\* The request id of logger.go:78-81: the request header, else the response's.
ResolveId(reqId, resId) == IF reqId = "" THEN resId ELSE reqId

\* requestLogMessage (logger.go:84-88).
RequestLogMessage(include, r) ==
    IF include THEN ": " \o RequestLogField(r) ELSE ""

Level_ErrorFrom400(n) ==
    IF n >= 400 THEN "error" ELSE "info"

\* The zap method the switch of logger.go:91-100 calls.
Level(n) ==
    IF n >= 500 THEN "error"
    ELSE IF n >= 400 THEN "warn"
    ELSE "info"

\* The message literal of each case of the switch (logger.go:91-100).
BaseMessage(n) ==
    IF n >= 500 THEN "Server error"
    ELSE IF n >= 400 THEN "Client error"
    ELSE IF n >= 300 THEN "Redirection"
    ELSE "Success"

WithError_Only5xx(n) == n >= 500

\* Whether the case taken logs through log.With(zap.Error(err))
\* (logger.go:93 and 95) rather than through log itself (97 and 99).
WithError(n) == n >= 400

\* The names of the fields, in the order logger.go:68-82 builds them.
FieldKeys ==
    <<"remote_ip", "latency", "host", "request", "status", "size",
      "user_agent", "request_id">>

\* The entry one log call writes: level, message, the fields of
\* logger.go:68-82 and, under With, the zap.Error(err) field.
Entry(L, cfg, r, rs, e, s, t) ==
    [ layer      |-> L,
      level      |-> Level(rs.Status),
      msg        |-> BaseMessage(rs.Status) \o RequestLogMessage(cfg.IncludeRequestLogMessage, r),
      keys       |-> FieldKeys,
      remote_ip  |-> r.RealIP,
      latency    |-> LatencyField(s, t),
      host       |-> r.Host,
      request    |-> RequestLogField(r),
      status     |-> rs.Status,
      size       |-> rs.Size,
      user_agent |-> r.UserAgent,
      request_id |-> ResolveId(r.XRequestID, rs.XRequestID),
      hasError   |-> WithError(rs.Status),
      error      |-> IF WithError(rs.Status) THEN e ELSE Nil ]

Emit_Twice(entries, e) == Append(Append(entries, e), e)

\* One call of log.Error / log.Warn / log.Info (logger.go:93-99).
Emit(entries, e) == Append(entries, e)

Report_Always(L, e) == <<[layer |-> L, error |-> e]>>

Report_Never(L, e) == <<>>

\* `if err != nil { c.Error(err) }` (logger.go:59-61): what reaches the sink.
Report(L, e) == IF e # Nil THEN <<[layer |-> L, error |-> e]>> ELSE <<>>

Result_PassThrough(e) == e

\* `return nil` (logger.go:102).
Result(e) == Nil

\* `return next(c)` (logger.go:53).
SkipResult(e) == e

InvokeNext_Twice(n) == n + 2

\* One invocation of next (logger.go:53 and 58).
InvokeNext(n) == n + 1

StartAt_Early(skip, old, t) == t

\* `start := time.Now()` (logger.go:56) comes after the skip check returned
\* on line 53: a skipped request never reads the clock.
StartAt(skip, old, t) == IF skip THEN old ELSE t

----------------------------------------------------------------------------
(* The chain *)

NumLayers == Len(config)
Layers == 1..NumLayers
HandlerPos == NumLayers + 1
Chain == 1..HandlerPos

Ev(what, t) == [ev |-> what, at |-> t]

Configs == [Skipper : Skippers, IncludeRequestLogMessage : BOOLEAN]

Requests ==
    [ Method : Methods, RequestURI : URIs, Host : {"example.org"},
      RealIP : {"10.0.0.1"}, UserAgent : {"curl"}, XRequestID : RequestIds ]

Init ==
    /\ \E n \in 1..MaxLayers : config \in [1..n -> Configs]
    /\ req \in Requests
    /\ res = [Status |-> 200, Size |-> 0, XRequestID |-> ""]
    /\ pc = [p \in Chain |-> "idle"]
    /\ start = [L \in Layers |-> NoTime]
    /\ err = [L \in Layers |-> Nil]
    /\ ret = [p \in Chain |-> NotReturned]
    /\ calls = [L \in Layers |-> 0]
    /\ now = 0
    /\ log = <<>>
    /\ sink = <<>>
    /\ trace = [L \in Layers |-> <<>>]

\* Chain member p has been invoked by its caller and has not started yet.
Invoked(p) ==
    /\ pc[p] = "idle"
    /\ IF p = 1 THEN TRUE ELSE pc[p - 1] \in {"passing", "waiting"}

\* logger.go:52-58 up to and including the call of next: the skip check,
\* then either `return next(c)` or `start := time.Now(); err := next(c)`.
Enter(L) ==
    /\ Invoked(L)
    /\ LET skip == SkipperSays(config[L]) IN
        /\ start' = [start EXCEPT ![L] = StartAt(skip, @, now)]
        /\ pc' = [pc EXCEPT ![L] = IF skip THEN "passing" ELSE "waiting"]
        /\ trace' = [trace EXCEPT ![L] =
                        <<Ev("skipcheck", now)>>
                        \o (IF StartAt(skip, NoTime, now) # NoTime
                            THEN <<Ev("start", now)>> ELSE <<>>)
                        \o <<Ev("callnext", now)>>]
    /\ calls' = [calls EXCEPT ![L] = InvokeNext(@)]
    /\ UNCHANGED <<config, req, res, err, ret, now, log, sink>>

\* The terminal echo.HandlerFunc: it runs for a while, may write the
\* response (status, size, X-Request-Id header) and returns nil or an error.
Handler ==
    /\ Invoked(HandlerPos)
    /\ \E st \in StatusSet, sz \in SizeSet, id \in ResponseIds,
          e \in Errors \cup {Nil}, d \in 1..MaxHandlerDur :
        /\ res' = [Status |-> st, Size |-> sz, XRequestID |-> id]
        /\ ret' = [ret EXCEPT ![HandlerPos] = e]
        /\ now' = now + d
    /\ pc' = [pc EXCEPT ![HandlerPos] = "done"]
    /\ UNCHANGED <<config, req, start, err, calls, log, sink, trace>>

\* logger.go:53, after next returned: the skipped layer returns its value.
PassReturn(L) ==
    /\ pc[L] = "passing"
    /\ pc[L + 1] = "done"
    /\ ret' = [ret EXCEPT ![L] = SkipResult(ret[L + 1])]
    /\ pc' = [pc EXCEPT ![L] = "done"]
    /\ trace' = [trace EXCEPT ![L] =
                    @ \o <<Ev("nextret", now), Ev("return", now)>>]
    /\ UNCHANGED <<config, req, res, start, err, calls, now, log, sink>>

\* c.Error(err) (logger.go:60) runs echo's HTTPErrorHandler: it takes d ns
\* and either finds the response committed and leaves it, or writes st.
ErrorHandled(rs, reported, st) ==
    IF reported = <<>> THEN rs ELSE [rs EXCEPT !.Status = st]

\* logger.go:58-102, from the return of next to `return nil`.
Finish(L) ==
    /\ pc[L] = "waiting"
    /\ pc[L + 1] = "done"
    /\ LET e == ret[L + 1]
           reported == Report(L, e)
       IN \E st \in ErrorHandlerStatus \cup {res.Status}, d \in 0..MaxErrorDur :
            LET rs == ErrorHandled(res, reported, st)
                t  == IF reported = <<>> THEN now ELSE now + d
                entry == Entry(L, config[L], req, rs, e, start[L], t)
            IN  /\ reported = <<>> => (d = 0 /\ st = res.Status)
                /\ err' = [err EXCEPT ![L] = e]
                /\ sink' = sink \o reported
                /\ res' = rs
                /\ now' = t
                /\ log' = Emit(log, entry)
                /\ ret' = [ret EXCEPT ![L] = Result(e)]
                /\ trace' = [trace EXCEPT ![L] = @
                     \o <<Ev("nextret", now)>>
                     \o [i \in 1..Len(reported) |-> Ev("cerror", now)]
                     \o <<Ev("since", t), Ev("resolveid", t),
                          Ev("log", t), Ev("return", t)>>]
    /\ pc' = [pc EXCEPT ![L] = "done"]
    /\ UNCHANGED <<config, req, start, calls>>

Next ==
    \/ \E L \in Layers : Enter(L)
    \/ Handler
    \/ \E L \in Layers : PassReturn(L)
    \/ \E L \in Layers : Finish(L)

Spec == Init /\ [][Next]_vars

----------------------------------------------------------------------------
(* Vocabulary of the properties *)

Skipped(L) == SkipperSays(config[L])
Returned(L) == pc[L] = "done"
NextResult(L) == ret[L + 1]
LogOf(L) == SelectSeq(log, LAMBDA e : e.layer = L)
SinkOf(L) == SelectSeq(sink, LAMBDA x : x.layer = L)
Steps(L) == [i \in 1..Len(trace[L]) |-> trace[L][i].ev]
TimeOf(L, what) ==
    trace[L][CHOOSE i \in 1..Len(trace[L]) : trace[L][i].ev = what].at

----------------------------------------------------------------------------
(* C1 *)

\* C1, as stated: every layer that has returned returned exactly the value
\* its next returned, error or nil.
C1_ReturnsNextValue ==
    \A L \in Layers : Returned(L) => ret[L] = NextResult(L)

\* C1, amended: a layer returns the value of next unchanged when the request
\* is skipped or when next returned nil; a layer that does not skip returns
\* nil also when next returned a non-nil error.
C1_ReturnValue ==
    \A L \in Layers : Returned(L) =>
        /\ Skipped(L) => ret[L] = NextResult(L)
        /\ ~Skipped(L) => ret[L] = Nil
        /\ NextResult(L) = Nil => ret[L] = Nil

C1_Witness ==
    \E L \in Layers :
        /\ Returned(L) /\ ~Skipped(L)
        /\ NextResult(L) \in Errors
        /\ ret[L] = Nil

----------------------------------------------------------------------------
(* C2 *)

\* C2, as stated: whenever next returned a non-nil error, the layer returns
\* nil and the sink has received that error from the layer exactly once.
C2_ErrorAlwaysReportedAndNil ==
    \A L \in Layers : (Returned(L) /\ NextResult(L) # Nil) =>
        /\ ret[L] = Nil
        /\ Len(SinkOf(L)) = 1
        /\ SinkOf(L)[1].error = NextResult(L)

\* C2, amended: whenever next returned a non-nil error and the request is not
\* skipped, the layer returns nil and by then the sink has received that
\* error from the layer exactly once.
C2_ErrorReportedAndNil ==
    \A L \in Layers : (Returned(L) /\ ~Skipped(L) /\ NextResult(L) # Nil) =>
        /\ ret[L] = Nil
        /\ Len(SinkOf(L)) = 1
        /\ SinkOf(L)[1].error = NextResult(L)

C2_Witness ==
    \E L \in Layers :
        /\ Returned(L) /\ ~Skipped(L)
        /\ NextResult(L) \in Errors
        /\ sink = <<[layer |-> L, error |-> NextResult(L)]>>

----------------------------------------------------------------------------
(* C3 *)

\* C3, as stated: for every request, skipped or not, the layer calls c.Error
\* exactly once if next returned a non-nil error and never otherwise.
C3_HookIffErrorAlways ==
    \A L \in Layers : Returned(L) =>
        Len(SinkOf(L)) = (IF NextResult(L) # Nil THEN 1 ELSE 0)

\* C3, amended: for every request that is not skipped, the layer calls
\* c.Error exactly once if next returned a non-nil error and never when it
\* returned nil; for a skipped request the layer never calls c.Error.
C3_HookIffError ==
    \A L \in Layers :
        /\ (Returned(L) /\ ~Skipped(L)) =>
              Len(SinkOf(L)) = (IF NextResult(L) # Nil THEN 1 ELSE 0)
        /\ Skipped(L) => Len(SinkOf(L)) = 0
        /\ ~Returned(L) => Len(SinkOf(L)) = 0

C3_Witness ==
    /\ \A L \in Layers : Returned(L)
    /\ \E L \in Layers : ~Skipped(L) /\ NextResult(L) = Nil /\ SinkOf(L) = <<>>
    /\ \E L \in Layers : ~Skipped(L) /\ NextResult(L) \in Errors /\ Len(SinkOf(L)) = 1

----------------------------------------------------------------------------
(* C4 *)

\* C4: a layer whose skip predicate answers true is a pure pass-through: it
\* checks the predicate first, invokes next once, returns the result of
\* next, never reads the clock, builds no field and writes no log entry.
C4_SkipIsPassThrough ==
    \A L \in Layers : Skipped(L) =>
        /\ start[L] = NoTime
        /\ LogOf(L) = <<>>
        /\ calls[L] <= 1
        /\ Steps(L) \in {<<>>, <<"skipcheck", "callnext">>,
                         <<"skipcheck", "callnext", "nextret", "return">>}
        /\ Returned(L) => /\ calls[L] = 1
                          /\ ret[L] = NextResult(L)

C4_Witness ==
    \E L \in Layers :
        /\ Skipped(L) /\ Returned(L)
        /\ NextResult(L) \in Errors
        /\ \E M \in Layers : ~Skipped(M)

----------------------------------------------------------------------------
(* C5 *)

\* C5: a layer that does not skip writes exactly one log entry; the entry
\* carries remote_ip, latency, host, request, status, size, user_agent and
\* request_id, and carries the error field, holding the value next returned
\* (nil included), exactly when the response status is 400 or more.
C5_OneEntryWithFields ==
    \A L \in Layers : ~Skipped(L) =>
        /\ Len(LogOf(L)) = (IF Returned(L) THEN 1 ELSE 0)
        /\ Returned(L) =>
            LET e == LogOf(L)[1] IN
            /\ e.keys = <<"remote_ip", "latency", "host", "request", "status",
                          "size", "user_agent", "request_id">>
            /\ e.remote_ip = req.RealIP
            /\ e.host = req.Host
            /\ e.request = req.Method \o " " \o req.RequestURI
            /\ e.user_agent = req.UserAgent
            /\ e.status \in Int
            /\ e.size = res.Size
            /\ e.hasError <=> (e.status >= 400)
            /\ e.hasError => e.error = NextResult(L)

C5_Witness ==
    \E L \in Layers :
        /\ ~Skipped(L) /\ Returned(L)
        /\ LogOf(L)[1].status = 400
        /\ LogOf(L)[1].hasError
        /\ LogOf(L)[1].error = Nil

----------------------------------------------------------------------------
(* C6 *)

\* C6: every layer, skipping or not, and whatever next returns, invokes next
\* exactly once: never more than once at any time, and once by the time it
\* has called next or returned.
C6_NextInvokedOnce ==
    \A L \in Layers :
        /\ calls[L] <= 1
        /\ pc[L] # "idle" => calls[L] = 1
        /\ pc[L] # "idle" => pc[L + 1] # "idle" \/ Invoked(L + 1)
        /\ Len(SelectSeq(trace[L], LAMBDA x : x.ev = "callnext")) = calls[L]

C6_Witness ==
    /\ NumLayers = 2
    /\ \A L \in Layers : Returned(L) /\ calls[L] = 1
    /\ Skipped(1) /\ ~Skipped(2)
    /\ ret[HandlerPos] \in Errors

----------------------------------------------------------------------------
(* C7 *)

C7_Severity(n) ==
    CASE n >= 500 -> "error"
      [] n >= 400 /\ n <= 499 -> "warn"
      [] n >= 300 /\ n <= 399 -> "info"
      [] OTHER -> "info"

C7_Message(n) ==
    CASE n >= 500 -> "Server error"
      [] n >= 400 /\ n <= 499 -> "Client error"
      [] n >= 300 /\ n <= 399 -> "Redirection"
      [] OTHER -> "Success"

\* C7: the severity and the message of every entry are determined by the
\* logged status and the layer's IncludeRequestLogMessage flag alone,
\* whatever next returned: >= 500 error "Server error", 400-499 warning
\* "Client error", 300-399 info "Redirection", anything else info "Success";
\* the message is the base message, followed by ": <METHOD> <URI>" exactly
\* when the flag is set.
C7_SeverityAndMessage ==
    \A i \in 1..Len(log) :
        LET e == log[i] IN
        /\ e.level = C7_Severity(e.status)
        /\ e.msg = IF config[e.layer].IncludeRequestLogMessage
                   THEN C7_Message(e.status) \o ": " \o req.Method \o " " \o req.RequestURI
                   ELSE C7_Message(e.status)

C7_Witness ==
    \E i \in 1..Len(log) :
        /\ log[i].status = -1 /\ log[i].level = "info"
        /\ log[i].msg = "Success: GET /foo"
        /\ err[log[i].layer] \in Errors

----------------------------------------------------------------------------
(* C8 *)

\* C8: the request_id of every entry is the inbound X-Request-Id header when
\* that is not empty, else the response's X-Request-Id header as next left
\* it, else the empty string; it is resolved after next has returned.
C8_RequestId ==
    \A L \in Layers : LogOf(L) # <<>> =>
        /\ LogOf(L)[1].request_id =
              (IF req.XRequestID # "" THEN req.XRequestID
               ELSE IF res.XRequestID # "" THEN res.XRequestID
               ELSE "")
        /\ \E i, j \in 1..Len(Steps(L)) :
              i < j /\ Steps(L)[i] = "nextret" /\ Steps(L)[j] = "resolveid"

C8_Witness ==
    /\ \E L \in Layers : LogOf(L) # <<>> /\ LogOf(L)[1].request_id = "abc"
    /\ req.XRequestID = "abc"
    /\ res.XRequestID = "xyz"

----------------------------------------------------------------------------
(* C9 *)

\* C9: with the middleware applied twice and neither layer skipping, one
\* request produces exactly two entries, one per layer, and the inner layer
\* logs the request_id it logs as the only layer: the request's header if
\* not empty, else the header the handler left on the response.
C9_TwoLayers ==
    /\ (NumLayers = 2 /\ ~Skipped(1) /\ ~Skipped(2) /\ Returned(1)) =>
        /\ Len(log) = 2
        /\ Len(LogOf(1)) = 1 /\ Len(LogOf(2)) = 1
        /\ LogOf(2)[1].request_id =
              (IF req.XRequestID # "" THEN req.XRequestID ELSE res.XRequestID)
    /\ (NumLayers = 1 /\ ~Skipped(1) /\ Returned(1)) =>
        /\ Len(log) = 1
        /\ log[1].request_id =
              (IF req.XRequestID # "" THEN req.XRequestID ELSE res.XRequestID)

C9_Witness ==
    /\ NumLayers = 2 /\ ~Skipped(1) /\ ~Skipped(2) /\ Returned(1)
    /\ Len(log) = 2
    /\ req.XRequestID = "" /\ log[1].layer = 2 /\ log[1].request_id = "xyz"

----------------------------------------------------------------------------
(* C10 *)

====
